---- MODULE Spec2Model ----
(***************************************************************************)
(* Business-card extraction pipeline of namecard-line-bot                  *)
(* (src/ocr_processor.py): OCR blocks -> DBSCAN clusters -> aspect-ratio   *)
(* filter -> per-cluster field extraction -> record list.                  *)
(*                                                                         *)
(* A text is a sequence of characters; a character is a one-character      *)
(* string, or the code-point name of a non-ASCII character ("U+96FB").     *)
(***************************************************************************)
EXTENDS Integers, Sequences, FiniteSets, TLC

VARIABLES
    response,         \* the OCR backend's answer to the request
    pc,               \* position inside process_image
    text_blocks,      \* what ocr_image_with_layout returned
    labels,           \* clustering.labels_ (one label per block; <<>> if unused)
    namecard_groups,  \* what group_text_by_clustering returned
    results,          \* the list process_image accumulates
    result,           \* the value process_image returned
    xpc,              \* position of the field-extractor run
    text,             \* the text handed to the field extractors
    phone,            \* extract_phone(text)
    mobile,           \* extract_mobile(text)
    name,             \* extract_name(text)
    email,            \* extract_email(text)
    available,        \* app.py: ocr and db were initialised
    monthly_usage,    \* users table: monthly_usage of the sender's row
    namecards,        \* namecards table: the rows inserted
    hpc,              \* position of each running handle_image_message
    user,             \* its local user
    ocr_result,       \* its local result (of ocr.process_image)
    card_info,        \* its local card_info
    saved,            \* its local saved
    current_usage,    \* current_usage inside its increment_monthly_usage
    incremented,      \* what its increment_monthly_usage returned
    calls             \* the calls it made to db, in order

pvars == <<response, pc, text_blocks, labels, namecard_groups, results, result>>
xvars == <<xpc, text, phone, mobile>>
nvars == <<name, email>>
avars == <<available, monthly_usage, namecards, hpc, user, ocr_result,
           card_info, saved, current_usage, incremented, calls>>
vars == <<response, pc, text_blocks, labels, namecard_groups, results, result,
          xpc, text, phone, mobile, name, email,
          available, monthly_usage, namecards, hpc, user, ocr_result,
          card_info, saved, current_usage, incremented, calls>>

(***************************************************************************)
(* Characters and character classes                                        *)
(***************************************************************************)
\* Python's None; no text is equal to it (a text holds single characters).
None == <<"None">>

UpperSeq == <<"A","B","C","D","E","F","G","H","I","J","K","L","M",
              "N","O","P","Q","R","S","T","U","V","W","X","Y","Z">>
LowerSeq == <<"a","b","c","d","e","f","g","h","i","j","k","l","m",
              "n","o","p","q","r","s","t","u","v","w","x","y","z">>
Upper == {UpperSeq[i] : i \in 1..Len(UpperSeq)}
Lower == {LowerSeq[i] : i \in 1..Len(LowerSeq)}
Letter == Upper \cup Lower
Digit == {"0","1","2","3","4","5","6","7","8","9"}

\* re.IGNORECASE: both sides are compared lower-cased.
LowerOf ==
    [c \in Upper |-> LowerSeq[CHOOSE i \in 1..Len(UpperSeq) : UpperSeq[i] = c]]

Fold(c) == IF c \in Upper THEN LowerOf[c] ELSE c

\* U+3000 is the ideographic (full-width) space.
IdeoSpace == "U+3000"
\* \s
Space == {" ", "\t", "\n", IdeoSpace}
\* [:\s]
ColonSpace == {":"} \cup Space

\* The CJK ideographs (the class [U+4E00-U+9FFF]) of the alphabet:
\* U+96FB U+8A71 = "denwa" (telephone), U+643A U+5E2F = "keitai" (mobile),
\* U+682A U+5F0F U+4F1A U+793E = "kabushiki kaisha", U+5C71 U+7530 U+592A
\* U+90CE = a family name and a given name.
CJK == {"U+96FB","U+8A71","U+643A","U+5E2F","U+682A","U+5F0F","U+4F1A",
        "U+793E","U+5C71","U+7530","U+592A","U+90CE","U+6709","U+9650",
        "U+5408","U+540C","U+8CC7","U+56E3","U+6CD5","U+4EBA","U+8CA1",
        "U+533B","U+7642"}

(***************************************************************************)
(* Sequence and regular-expression helpers                                 *)
(***************************************************************************)
Sub(s, a, b) == IF a > b THEN <<>> ELSE SubSeq(s, a, b)

\* c in text t at position p belongs to class cls
At(t, p, cls) == p >= 1 /\ p <= Len(t) /\ t[p] \in cls

\* literal lit occurs in t at position p (ic: ignoring case)
MatchLit(t, p, lit, ic) ==
    /\ p >= 1
    /\ p + Len(lit) - 1 <= Len(t)
    /\ \A k \in 1..Len(lit) :
          IF ic THEN Fold(t[p + k - 1]) = Fold(lit[k])
                ELSE t[p + k - 1] = lit[k]

\* str.startswith
StartsWith(t, lit) == MatchLit(t, 1, lit, FALSE)

\* lit in t
Contains(t, lit) == \E p \in 1..(Len(t) + 1) : MatchLit(t, p, lit, FALSE)

\* cls* (greedy): the position after the longest run of cls starting at p
RECURSIVE RunEnd(_, _, _)
RunEnd(t, p, cls) ==
    IF At(t, p, cls) THEN RunEnd(t, p + 1, cls) ELSE p

\* (?:l1|l2|...) at p: the position after the first alternative that
\* matches, 0 if none does
RECURSIVE AltEnd(_, _, _, _)
AltEnd(t, p, alts, k) ==
    IF k > Len(alts) THEN 0
    ELSE IF MatchLit(t, p, alts[k], TRUE) THEN p + Len(alts[k])
    ELSE AltEnd(t, p, alts, k + 1)

\* str.replace(c, ''): t without the characters of cls
RECURSIVE Remove(_, _)
Remove(t, cls) ==
    IF t = <<>> THEN <<>>
    ELSE IF Head(t) \in cls THEN Remove(Tail(t), cls)
    ELSE <<Head(t)>> \o Remove(Tail(t), cls)

\* '\n'.join(lines)
RECURSIVE JoinLines(_)
JoinLines(ls) ==
    IF ls = <<>> THEN <<>>
    ELSE IF Len(ls) = 1 THEN ls[1]
    ELSE ls[1] \o <<"\n">> \o JoinLines(Tail(ls))

(***************************************************************************)
(* extract_phone and extract_mobile                                        *)
(***************************************************************************)
PhoneLabels == << <<"T","E","L">>, <<"T","e","l">>, <<"t","e","l">>,
                  <<"U+96FB","U+8A71">> >>
MobileLabels == << <<"M","o","b","i","l","e">>, <<"m","o","b","i","l","e">>,
                   <<"U+643A","U+5E2F">> >>
MobileOrFaxLabels == MobileLabels \o << <<"F","A","X">> >>
MobilePrefixes == { <<"0","7","0">>, <<"0","8","0">>, <<"0","9","0">> }

\* 0\d{1,4}-\d{1,4}-\d{4} at r: the position after the match, 0 if none
PhoneDashedCore(t, r) ==
    LET d1 == RunEnd(t, r + 1, Digit)
        d2 == RunEnd(t, d1 + 1, Digit)
    IN  IF /\ At(t, r, {"0"})
           /\ d1 - (r + 1) \in 1..4
           /\ At(t, d1, {"-"})
           /\ d2 - (d1 + 1) \in 1..4
           /\ At(t, d2, {"-"})
           /\ \A k \in 1..4 : At(t, d2 + k, Digit)
        THEN d2 + 5
        ELSE 0

\* 0\d{9,10} at r
PhonePlainCore(t, r) ==
    LET d == RunEnd(t, r + 1, Digit)
        n == d - (r + 1)
    IN  IF At(t, r, {"0"}) /\ n >= 9
        THEN r + 1 + (IF n > 10 THEN 10 ELSE n)
        ELSE 0

\* 0[789]0-?\d{4}-?\d{4} at r
MobileCore(t, r) ==
    LET a == IF At(t, r + 3, {"-"}) THEN r + 4 ELSE r + 3
        b == IF At(t, a + 4, {"-"}) THEN a + 5 ELSE a + 4
    IN  IF /\ At(t, r, {"0"})
           /\ At(t, r + 1, {"7","8","9"})
           /\ At(t, r + 2, {"0"})
           /\ \A k \in 0..3 : At(t, a + k, Digit)
           /\ \A k \in 0..3 : At(t, b + k, Digit)
        THEN b + 4
        ELSE 0

Core(pat, t, r) ==
    CASE pat = "phone_dashed" -> PhoneDashedCore(t, r)
      [] pat = "phone_plain"  -> PhonePlainCore(t, r)
      [] pat = "mobile"       -> MobileCore(t, r)

PatternLabels(pat) ==
    IF pat = "mobile" THEN MobileOrFaxLabels ELSE PhoneLabels

\* (?:label)?[:\s]*core at p: with the label first, then without it
MatchEnd(pat, t, p) ==
    LET l      == AltEnd(t, p, PatternLabels(pat), 1)
        withL  == IF l = 0 THEN 0
                  ELSE Core(pat, t, RunEnd(t, l, ColonSpace))
    IN  IF withL # 0 THEN withL
        ELSE Core(pat, t, RunEnd(t, p, ColonSpace))

\* re.findall(pattern, text, re.IGNORECASE): the non-overlapping matches,
\* leftmost first
RECURSIVE FindAll(_, _, _)
FindAll(pat, t, p) ==
    IF p > Len(t) THEN <<>>
    ELSE LET e == MatchEnd(pat, t, p)
         IN  IF e # 0
             THEN <<Sub(t, p, e - 1)>> \o FindAll(pat, t, e)
             ELSE FindAll(pat, t, p + 1)

\* re.sub(r'(?:label)[:\s]*', '', s, flags=re.IGNORECASE)
RECURSIVE SubLabels(_, _, _)
SubLabels(lbls, s, p) ==
    IF p > Len(s) THEN <<>>
    ELSE LET l == AltEnd(s, p, lbls, 1)
         IN  IF l # 0
             THEN SubLabels(lbls, s, RunEnd(s, l, ColonSpace))
             ELSE <<s[p]>> \o SubLabels(lbls, s, p + 1)

\* text.replace(' ', '').replace(U+3000, '')
StripSpaces(t) == Remove(t, {" ", IdeoSpace})

IsMobilePrefixed(s) == \E m \in MobilePrefixes : StartsWith(s, m)

\* the loop body of extract_phone for one pattern: the value returned, or
\* None when the loop goes on
PhoneByPattern(pat, t) ==
    LET phones == FindAll(pat, t, 1)
    IN  IF phones = <<>> THEN None
        ELSE LET ph == SubLabels(PhoneLabels, phones[1], 1)
             IN  IF ~IsMobilePrefixed(ph) THEN ph ELSE None

extract_phone(txt) ==
    LET t  == StripSpaces(txt)
        p1 == PhoneByPattern("phone_dashed", t)
    IN  IF p1 # None THEN p1 ELSE PhoneByPattern("phone_plain", t)

\* 'FAX' not in mobile and 'fax' not in mobile
NotFax(m) == ~Contains(m, <<"F","A","X">>) /\ ~Contains(m, <<"f","a","x">>)

RECURSIVE FirstMobile(_, _)
FirstMobile(mobiles, k) ==
    IF k > Len(mobiles) THEN None
    ELSE IF NotFax(mobiles[k]) THEN SubLabels(MobileLabels, mobiles[k], 1)
    ELSE FirstMobile(mobiles, k + 1)

extract_mobile(txt) ==
    FirstMobile(FindAll("mobile", StripSpaces(txt), 1), 1)

(***************************************************************************)
(* extract_email, extract_name, extract_company, extract_info_from_text    *)
(***************************************************************************)
EmailLocal == Letter \cup Digit \cup {".", "_", "%", "+", "-"}
EmailDomain == Letter \cup Digit \cup {".", "-"}

\* [a-zA-Z0-9._%+-]+@[a-zA-Z0-9.-]+\.[a-zA-Z]{2,} at p: the position after
\* the match, 0 if none. The domain run is greedy and gives characters back
\* until a dot followed by two or more letters is left.
EmailEnd(t, p) ==
    LET l    == RunEnd(t, p, EmailLocal)
        m    == RunEnd(t, l + 1, EmailDomain)
        dots == {k \in (l + 2)..(m - 1) :
                    /\ t[k] = "."
                    /\ RunEnd(t, k + 1, Letter) - (k + 1) >= 2}
    IN  IF l > p /\ At(t, l, {"@"}) /\ dots # {}
        THEN LET k == CHOOSE d \in dots : \A o \in dots : o <= d
             IN  RunEnd(t, k + 1, Letter)
        ELSE 0

\* emails[0] if emails else None
RECURSIVE FirstEmail(_, _)
FirstEmail(t, p) ==
    IF p > Len(t) THEN None
    ELSE LET e == EmailEnd(t, p)
         IN  IF e # 0 THEN Sub(t, p, e - 1) ELSE FirstEmail(t, p + 1)

extract_email(txt) == FirstEmail(txt, 1)

\* text.split('\n')
RECURSIVE SplitLines(_, _, _)
SplitLines(t, p, cur) ==
    IF p > Len(t) THEN <<cur>>
    ELSE IF t[p] = "\n" THEN <<cur>> \o SplitLines(t, p + 1, <<>>)
    ELSE SplitLines(t, p + 1, Append(cur, t[p]))

\* str.strip()
RECURSIVE Strip(_)
Strip(l) ==
    IF l = <<>> THEN <<>>
    ELSE IF Head(l) \in Space THEN Strip(Tail(l))
    ELSE IF l[Len(l)] \in Space THEN Strip(Sub(l, 1, Len(l) - 1))
    ELSE l

\* ^[CJK]{2,4}[\s]+[CJK]{1,4}$
IsCjkName(l) ==
    LET a == RunEnd(l, 1, CJK)
        b == RunEnd(l, a, Space)
        c == RunEnd(l, b, CJK)
    IN  /\ a - 1 \in 2..4
        /\ b > a
        /\ c - b \in 1..4
        /\ c = Len(l) + 1

\* ^[A-Z][a-z]+\s+[A-Z][a-z]+$
IsLatinName(l) ==
    LET a == RunEnd(l, 2, Lower)
        b == RunEnd(l, a, Space)
        c == RunEnd(l, b + 1, Lower)
    IN  /\ At(l, 1, Upper)
        /\ a > 2
        /\ b > a
        /\ At(l, b, Upper)
        /\ c > b + 1
        /\ c = Len(l) + 1

FirstN(s, n) == Sub(s, 1, IF Len(s) < n THEN Len(s) ELSE n)

NameLines == 5
CompanyLines == 10

RECURSIVE NameIn(_, _)
NameIn(ls, k) ==
    IF k > Len(ls) THEN None
    ELSE LET line == Strip(ls[k])
         IN  IF IsCjkName(line) THEN line
             ELSE IF IsLatinName(line) THEN line
             ELSE NameIn(ls, k + 1)

extract_name(txt) == NameIn(FirstN(SplitLines(txt, 1, <<>>), NameLines), 1)

CompanyKeywords ==
    { <<"U+682A","U+5F0F","U+4F1A","U+793E">>,
      <<"U+6709","U+9650","U+4F1A","U+793E">>,
      <<"U+5408","U+540C","U+4F1A","U+793E">>,
      <<"U+5408","U+8CC7","U+4F1A","U+793E">>,
      <<"U+793E","U+56E3","U+6CD5","U+4EBA">>,
      <<"U+8CA1","U+56E3","U+6CD5","U+4EBA">>,
      <<"U+533B","U+7642","U+6CD5","U+4EBA">>,
      <<"C","o",".">>, <<"L","t","d",".">>, <<"I","n","c",".">>,
      <<"C","o","r","p","o","r","a","t","i","o","n">>,
      <<"C","o","r","p",".">>, <<"K",".","K",".">>, <<"G","K">>,
      <<"L","L","C">> }

RECURSIVE CompanyIn(_, _)
CompanyIn(ls, k) ==
    IF k > Len(ls) THEN None
    ELSE IF \E kw \in CompanyKeywords : Contains(ls[k], kw) THEN Strip(ls[k])
    ELSE CompanyIn(ls, k + 1)

extract_company(txt) ==
    CompanyIn(FirstN(SplitLines(txt, 1, <<>>), CompanyLines), 1)

\* extract_info_from_text returning None
NoInfo == [none |-> TRUE]

\* The record of one card. The address and website fields are left out: no
\* property below reads them and no other field depends on them.
extract_info_from_text(txt) ==
    IF txt = <<>> \/ Strip(txt) = <<>> THEN NoInfo
    ELSE [ name      |-> extract_name(txt),
           company   |-> extract_company(txt),
           email     |-> extract_email(txt),
           phone     |-> extract_phone(txt),
           mobile    |-> extract_mobile(txt),
           full_text |-> txt ]

(***************************************************************************)
(* The OCR backend's answer and ocr_image_with_layout                      *)
(***************************************************************************)
\* How many blocks of the photographed scene the backend may report.
NumBlocks == 13

\* The scene: bounding rectangles <<x0, y0, x1, y1>> and texts of the
\* blocks the backend can report. 40x20 blocks stand on a grid of two rows,
\* 60 apart in both directions (block 1 top left, block 2 below it, block 3
\* right of block 1, ...); blocks 12 and 13 are flat lines (height 0) far
\* from the grid. All coordinates are even, so centroids are whole numbers.
GridRect(i) ==
    LET col == (i - 1) \div 2
        row == (i - 1) % 2
    IN  <<60 * col, 60 * row, 60 * col + 40, 60 * row + 20>>

SceneRect(i) ==
    CASE i <= 11 -> GridRect(i)
      [] i = 12  -> <<600, 600, 640, 600>>
      [] i = 13  -> <<540, 600, 580, 600>>
      [] OTHER   -> GridRect(i - 2)

SceneTexts ==
    << <<"A","b"," ","C","d">>,
       <<"a","@","b",".","c","c">>,
       <<"X"," ","I","n","c",".">>,
       <<"U+5C71","U+7530"," ","U+592A","U+90CE">>,
       <<"0","3","-","1","-","2","3","4","5">>,
       <<"c","@","d",".","e","e">>,
       <<"E","f"," ","G","h">>,
       <<"Z"," ","G","K">>,
       <<"e","@","f",".","g","g">>,
       <<"I","j"," ","K","l">>,
       <<"W"," ","C","o",".">>,
       <<"y","y">>,
       <<"Y"," ","L","L","C">>,
       <<"q","@","r",".","s","t">> >>

SceneText(i) == SceneTexts[((i - 1) % Len(SceneTexts)) + 1]

\* The blocks of one page in the order the backend reports them: the chosen
\* blocks of the scene in scene order (which is neither top-to-bottom nor
\* left-to-right).
RECURSIVE Ascending(_, _)
Ascending(S, i) ==
    IF i > NumBlocks THEN <<>>
    ELSE (IF i \in S THEN <<i>> ELSE <<>>) \o Ascending(S, i + 1)

Responses ==
    { [error |-> FALSE, blocks |-> Ascending(S, 1)] : S \in SUBSET (1..NumBlocks) }
    \cup { [error |-> TRUE, blocks |-> <<>>] }

SumOf(s) == s[1] + s[2] + s[3] + s[4]
MinOf(S) == CHOOSE v \in S : \A w \in S : v <= w
MaxOf(S) == CHOOSE v \in S : \A w \in S : v >= w

\* One entry of text_blocks, from the block's four vertices and its text.
TextBlock(i) ==
    LET r        == SceneRect(i)
        x_coords == <<r[1], r[3], r[3], r[1]>>
        y_coords == <<r[2], r[2], r[4], r[4]>>
        xs       == {x_coords[k] : k \in 1..4}
        ys       == {y_coords[k] : k \in 1..4}
    IN  [ text   |-> Strip(SceneText(i)),
          x      |-> SumOf(x_coords) \div 4,
          y      |-> SumOf(y_coords) \div 4,
          min_x  |-> MinOf(xs),
          max_x  |-> MaxOf(xs),
          min_y  |-> MinOf(ys),
          max_y  |-> MaxOf(ys),
          width  |-> MaxOf(xs) - MinOf(xs),
          height |-> MaxOf(ys) - MinOf(ys) ]

\* ocr_image_with_layout on a successful response: one entry per block whose
\* text is not blank.
RECURSIVE BlocksOf(_, _)
BlocksOf(ids, k) ==
    IF k > Len(ids) THEN <<>>
    ELSE (IF Strip(SceneText(ids[k])) # <<>> THEN <<TextBlock(ids[k])>>
          ELSE <<>>) \o BlocksOf(ids, k + 1)

ocr_image_with_layout(resp) == BlocksOf(resp.blocks, 1)

(***************************************************************************)
(* group_text_by_clustering                                                *)
(***************************************************************************)
MaxCards == 9

x_range(tb) ==
    MaxOf({tb[k].max_x : k \in 1..Len(tb)}) - MinOf({tb[k].min_x : k \in 1..Len(tb)})
y_range(tb) ==
    MaxOf({tb[k].max_y : k \in 1..Len(tb)}) - MinOf({tb[k].min_y : k \in 1..Len(tb)})

\* eps = min(x_range, y_range) * 0.15 is kept as the extent it is 15% of.
MinExtent(tb) == IF x_range(tb) < y_range(tb) THEN x_range(tb) ELSE y_range(tb)

\* DBSCAN rejects eps <= 0 with a ValueError.
EpsInvalid(tb) == MinExtent(tb) <= 0

\* Euclidean distance of the centroids <= eps, in whole numbers:
\* dx^2 + dy^2 <= (15/100 * m)^2
Neighbours(a, b, m) ==
    400 * ((a.x - b.x) * (a.x - b.x) + (a.y - b.y) * (a.y - b.y)) <= 9 * m * m

\* DBSCAN, min_samples = 1 (every point is a core point): the cluster of a
\* seed grows over the still unlabelled neighbours of its members.
RECURSIVE GrowCluster(_, _, _, _, _)
GrowCluster(tb, m, lab, todo, num) ==
    IF todo = {} THEN lab
    ELSE LET i    == CHOOSE j \in todo : TRUE
             lab2 == [lab EXCEPT ![i] = num]
             new  == {v \in 1..Len(tb) :
                        lab2[v] = -1 /\ Neighbours(tb[i], tb[v], m)}
         IN  GrowCluster(tb, m, lab2, (todo \ {i}) \cup new, num)

\* the seeds are taken in index order; labels count from 0
RECURSIVE ScanSeeds(_, _, _, _, _)
ScanSeeds(tb, m, lab, i, num) ==
    IF i > Len(tb) THEN lab
    ELSE IF lab[i] # -1 THEN ScanSeeds(tb, m, lab, i + 1, num)
    ELSE ScanSeeds(tb, m, GrowCluster(tb, m, lab, {i}, num), i + 1, num + 1)

\* DbscanLabels with min_samples = 2: a block with no neighbour but itself
\* is noise (label -1)
DbscanLabels_MinSamples2(tb) ==
    LET lab == ScanSeeds(tb, MinExtent(tb), [k \in 1..Len(tb) |-> -1], 1, 0)
    IN  [k \in 1..Len(tb) |->
            IF \E j \in 1..Len(tb) : j # k /\ lab[j] = lab[k]
            THEN lab[k] ELSE -1]

DbscanLabels(tb) ==
    ScanSeeds(tb, MinExtent(tb), [k \in 1..Len(tb) |-> -1], 1, 0)

\* lexicographic order of sort keys <<k1, k2>>
KeyLess(a, b) == a[1] < b[1] \/ (a[1] = b[1] /\ a[2] < b[2])

\* list.sort(key=...): stable; keys[k] is the key of items[k]
RECURSIVE InsertSorted(_, _, _, _)
InsertSorted(order, j, keys, p) ==
    IF p > Len(order) THEN Append(order, j)
    ELSE IF KeyLess(keys[j], keys[order[p]])
         THEN Sub(order, 1, p - 1) \o <<j>> \o Sub(order, p, Len(order))
    ELSE InsertSorted(order, j, keys, p + 1)

RECURSIVE SortOrder(_, _, _)
SortOrder(keys, j, order) ==
    IF j > Len(keys) THEN order
    ELSE SortOrder(keys, j + 1, InsertSorted(order, j, keys, 1))

StableSort(items, keys) ==
    LET order == SortOrder(keys, 1, <<>>)
    IN  [k \in 1..Len(items) |-> items[order[k]]]

\* ClusterBlocks comparing the labels with <= instead of ==
RECURSIVE ClusterBlocks_UpTo(_, _, _, _)
ClusterBlocks_UpTo(tb, lab, label, i) ==
    IF i > Len(tb) THEN <<>>
    ELSE (IF lab[i] <= label THEN <<tb[i]>> ELSE <<>>)
         \o ClusterBlocks_UpTo(tb, lab, label, i + 1)

\* [text_blocks[i] for i in np.where(labels == label)[0]]
RECURSIVE ClusterBlocks(_, _, _, _)
ClusterBlocks(tb, lab, label, i) ==
    IF i > Len(tb) THEN <<>>
    ELSE (IF lab[i] = label THEN <<tb[i]>> ELSE <<>>)
         \o ClusterBlocks(tb, lab, label, i + 1)

cluster_width(cb) ==
    MaxOf({cb[k].max_x : k \in 1..Len(cb)}) - MinOf({cb[k].min_x : k \in 1..Len(cb)})
cluster_height(cb) ==
    MaxOf({cb[k].max_y : k \in 1..Len(cb)}) - MinOf({cb[k].min_y : k \in 1..Len(cb)})

\* AspectOk without the upper bound 4.0
AspectOk_NoUpperBound(cb) ==
    cluster_height(cb) > 0 /\ 2 * cluster_width(cb) >= cluster_height(cb)

\* 0.5 <= aspect_ratio <= 4.0, where aspect_ratio is width / height, and 0
\* when the height is 0
AspectOk(cb) ==
    LET w == cluster_width(cb)
        h == cluster_height(cb)
    IN  h > 0 /\ 2 * w >= h /\ w <= 4 * h

\* SortByY leaving the blocks in the order of the input
SortByY_Unsorted(cb) == cb

\* cluster_blocks.sort(key=lambda b: b['y'])
SortByY(cb) == StableSort(cb, [k \in 1..Len(cb) |-> <<cb[k].y, 0>>])

\* the loop over unique_labels, in ascending label order
RECURSIVE AcceptedGroups(_, _, _, _)
AcceptedGroups(tb, lab, label, n) ==
    IF label >= n THEN <<>>
    ELSE LET cb == ClusterBlocks(tb, lab, label, 1)
         IN  (IF Len(cb) >= 1 /\ AspectOk(cb) THEN <<SortByY(cb)>> ELSE <<>>)
             \o AcceptedGroups(tb, lab, label + 1, n)

GroupKey(g) ==
    << MinOf({g[k].y : k \in 1..Len(g)}), MinOf({g[k].x : k \in 1..Len(g)}) >>

\* SortGroups sorting only the first max_cards groups (cap before sort)
SortGroups_CapFirst(gs) ==
    LET cut == FirstN(gs, MaxCards)
    IN  StableSort(cut, [k \in 1..Len(cut) |-> GroupKey(cut[k])])

\* namecard_groups.sort(key=lambda group: (min y, min x))
SortGroups(gs) == StableSort(gs, [k \in 1..Len(gs) |-> GroupKey(gs[k])])

\* CapGroups without the cap
CapGroups_NoCap(gs) == gs

\* namecard_groups[:max_cards]
CapGroups(gs) == FirstN(gs, MaxCards)

NumLabels(lab) == Cardinality({lab[k] : k \in 1..Len(lab)})

\* what group_text_by_clustering returns; lab is clustering.labels_ (only
\* computed, and only read, for two or more blocks)
group_text_by_clustering(tb, lab) ==
    IF Len(tb) = 0 THEN <<>>
    ELSE IF Len(tb) = 1 THEN <<tb>>
    ELSE CapGroups(SortGroups(AcceptedGroups(tb, lab, 0, NumLabels(lab))))

(***************************************************************************)
(* process_image                                                           *)
(***************************************************************************)
\* what process_image returns: None, or a list of records
ReturnNone == [none |-> TRUE, records |-> <<>>]
ReturnList(rs) == [none |-> FALSE, records |-> rs]

\* '\n'.join([block['text'] for block in group])
GroupText(g) == JoinLines([k \in 1..Len(g) |-> g[k].text])

\* Retained without the name/company/email bar
Retained_Any(info) == info # NoInfo

\* info and (info.get('name') or info.get('company') or info.get('email'))
Retained(info) ==
    /\ info # NoInfo
    /\ (info.name # None \/ info.company # None \/ info.email # None)

\* the loop over namecard_groups
RECURSIVE CardsOf(_, _)
CardsOf(gs, k) ==
    IF k > Len(gs) THEN <<>>
    ELSE LET info == extract_info_from_text(GroupText(gs[k]))
         IN  (IF Retained(info) THEN <<info>> ELSE <<>>) \o CardsOf(gs, k + 1)

\* results if results else None
ReturnValue(rs) == IF rs # <<>> THEN ReturnList(rs) ELSE ReturnNone

XIdle ==
    /\ xpc = "idle"
    /\ text = <<>>
    /\ phone = None
    /\ mobile = None

NIdle ==
    /\ name = None
    /\ email = None

\* How many image events of one sender are handled at the same time.
NumHandlers == 2
Handlers == 1..NumHandlers

\* None where a row (a dict) is expected
NoRow == [none |-> TRUE]
\* increment_monthly_usage returns "True" or "False"; before that:
NotCalled == "not called"

\* no image event is being handled
AIdle ==
    /\ available = FALSE
    /\ monthly_usage = 0
    /\ namecards = {}
    /\ hpc = [h \in Handlers |-> "idle"]
    /\ user = [h \in Handlers |-> NoRow]
    /\ ocr_result = [h \in Handlers |-> [none |-> TRUE, records |-> <<>>]]
    /\ card_info = [h \in Handlers |-> NoInfo]
    /\ saved = [h \in Handlers |-> NoRow]
    /\ current_usage = [h \in Handlers |-> 0]
    /\ incremented = [h \in Handlers |-> NotCalled]
    /\ calls = [h \in Handlers |-> <<>>]

PInit ==
    /\ response \in Responses
    /\ pc = "ocr"
    /\ text_blocks = <<>>
    /\ labels = <<>>
    /\ namecard_groups = <<>>
    /\ results = <<>>
    /\ result = ReturnNone

\* line 19, the backend answered with text annotations
OcrReturns ==
    /\ pc = "ocr"
    /\ ~response.error
    /\ text_blocks' = ocr_image_with_layout(response)
    /\ pc' = "blocks"
    /\ UNCHANGED <<response, labels, namecard_groups, results, result,
                   xvars, nvars, avars>>

\* line 19, the backend answered with an error: ocr_image_with_layout
\* raises, process_image catches it and returns None
OcrRaises ==
    /\ pc = "ocr"
    /\ response.error
    /\ result' = ReturnNone
    /\ pc' = "done"
    /\ UNCHANGED <<response, text_blocks, labels, namecard_groups, results,
                   xvars, nvars, avars>>

\* lines 21-23
NoTextDetected ==
    /\ pc = "blocks"
    /\ text_blocks = <<>>
    /\ result' = ReturnList(<<>>)
    /\ pc' = "done"
    /\ UNCHANGED <<response, text_blocks, labels, namecard_groups, results,
                   xvars, nvars, avars>>

\* line 28, group_text_by_clustering returns
GroupTextByClustering ==
    /\ pc = "blocks"
    /\ text_blocks # <<>>
    /\ ~(Len(text_blocks) >= 2 /\ EpsInvalid(text_blocks))
    /\ labels' = IF Len(text_blocks) >= 2 THEN DbscanLabels(text_blocks) ELSE <<>>
    /\ namecard_groups' = group_text_by_clustering(text_blocks, labels')
    /\ pc' = "groups"
    /\ UNCHANGED <<response, text_blocks, results, result,
                   xvars, nvars, avars>>

\* line 28, DBSCAN raises for eps = 0; process_image catches it and returns
\* None
ClusteringRaises ==
    /\ pc = "blocks"
    /\ Len(text_blocks) >= 2
    /\ EpsInvalid(text_blocks)
    /\ result' = ReturnNone
    /\ pc' = "done"
    /\ UNCHANGED <<response, text_blocks, labels, namecard_groups, results,
                   xvars, nvars, avars>>

\* lines 33-39
ExtractCards ==
    /\ pc = "groups"
    /\ results' = CardsOf(namecard_groups, 1)
    /\ pc' = "return"
    /\ UNCHANGED <<response, text_blocks, labels, namecard_groups, result,
                   xvars, nvars, avars>>

\* line 41
ReturnResults ==
    /\ pc = "return"
    /\ result' = ReturnValue(results)
    /\ pc' = "done"
    /\ UNCHANGED <<response, text_blocks, labels, namecard_groups, results,
                   xvars, nvars, avars>>

Init == PInit /\ XIdle /\ NIdle /\ AIdle
Next ==
    \/ OcrReturns
    \/ OcrRaises
    \/ NoTextDetected
    \/ GroupTextByClustering
    \/ ClusteringRaises
    \/ ExtractCards
    \/ ReturnResults
Spec == Init /\ [][Next]_vars

(***************************************************************************)
(* Field-extractor runs: extract_phone and extract_mobile applied to a     *)
(* text of up to MaxLines lines, each a (possibly labelled) number.        *)
(***************************************************************************)
MaxLines == 2

LinePrefixes == { <<>>, <<":">>, <<"T","E","L",":">>, <<"F","a","x",":">>,
                  <<"F","A","X",":">>, <<"M","o","b","i","l","e"," ">> }
Landline == <<"0","3","-","1","2","3","4","-","5","6","7","8">>
LandlinePlain == <<"0","3","1","2","3","4","5","6","7","8">>
MobileDashed == <<"0","9","0","-","1","2","3","4","-","5","6","7","8">>
MobilePlain == <<"0","8","0","1","2","3","4","5","6","7","8">>
LineNumbers == {Landline, LandlinePlain, MobileDashed, MobilePlain}
SampleLines == {p \o n : p \in LinePrefixes, n \in LineNumbers}

SampleTexts ==
    UNION { {JoinLines(ls) : ls \in [1..n -> SampleLines]} : n \in 1..MaxLines }

XInit ==
    /\ xpc = "phone"
    /\ text \in SampleTexts
    /\ phone = None
    /\ mobile = None

ExtractPhone ==
    /\ xpc = "phone"
    /\ phone' = extract_phone(text)
    /\ xpc' = "mobile"
    /\ UNCHANGED <<text, mobile, pvars, nvars, avars>>

ExtractMobile ==
    /\ xpc = "mobile"
    /\ mobile' = extract_mobile(text)
    /\ xpc' = "done"
    /\ UNCHANGED <<text, phone, pvars, nvars, avars>>

PIdle ==
    /\ response = [error |-> TRUE, blocks |-> <<>>]
    /\ pc = "idle"
    /\ text_blocks = <<>>
    /\ labels = <<>>
    /\ namecard_groups = <<>>
    /\ results = <<>>
    /\ result = ReturnNone

XNext == ExtractPhone \/ ExtractMobile

InitExtract == XInit /\ PIdle /\ NIdle /\ AIdle
SpecExtract == InitExtract /\ [][XNext]_vars

(***************************************************************************)
(* extract_name and extract_email on the head of a card's text             *)
(***************************************************************************)
\* U+FF20 is the full-width commercial at, U+3002 the ideographic full stop,
\* U+FF0E the full-width full stop.
FullWidthAt == "U+FF20"
FullWidthDots == {"U+3002", "U+FF0E"}

CjkNameLine == <<"U+5C71","U+7530"," ","U+592A","U+90CE">>
LatinNameLine == <<"A","b"," ","C","d">>
PaddedNameLine == <<" ","E","f"," ","G","h">>
EmailLine == <<"a","@","b",".","c","c">>
FullWidthEmailLine == <<"a","U+FF20","b","U+3002","c","c">>
CompanyLine == <<"X"," ","I","n","c",".">>
OtherLine == <<"y","y">>
HeaderLines ==
    {CjkNameLine, LatinNameLine, PaddedNameLine, EmailLine,
     FullWidthEmailLine, CompanyLine, OtherLine}

HeaderTexts ==
    UNION { {JoinLines(ls) : ls \in [1..n -> HeaderLines]} : n \in 1..MaxLines }

HInit ==
    /\ xpc = "name"
    /\ text \in HeaderTexts
    /\ phone = None
    /\ mobile = None
    /\ name = None
    /\ email = None

ExtractName ==
    /\ xpc = "name"
    /\ name' = extract_name(text)
    /\ xpc' = "email"
    /\ UNCHANGED <<text, phone, mobile, email, pvars, avars>>

ExtractEmail ==
    /\ xpc = "email"
    /\ email' = extract_email(text)
    /\ xpc' = "done"
    /\ UNCHANGED <<text, phone, mobile, name, pvars, avars>>

HNext == ExtractName \/ ExtractEmail

InitHeader == HInit /\ PIdle /\ AIdle
SpecHeader == InitHeader /\ [][HNext]_vars

(***************************************************************************)
(* handle_image_message (src/app.py) with save_namecard and                *)
(* increment_monthly_usage (src/database.py). Flask serves each webhook    *)
(* request on a thread of its own, so the handlers of several image events *)
(* of one sender run interleaved; every statement that reaches the         *)
(* database is a step. The sender's row exists in the users table.         *)
(***************************************************************************)
UserId == "u1"
\* the row get_or_create_user finds (lines 26-28)
UserRow == [none |-> FALSE, id |-> UserId]

CardA == extract_info_from_text(<<"a","@","b",".","c","c">>)
CardB == extract_info_from_text(<<"A","b"," ","C","d">>)
\* what ocr.process_image may hand back: None, [], one record, two records
PipelineResults ==
    {ReturnNone, ReturnList(<<>>), ReturnValue(<<CardA>>),
     ReturnValue(<<CardB, CardA>>)}

\* not result
Falsy(r) == r.none \/ r.records = <<>>
\* result[0] if len(result) > 0 else None
CardInfoOf(r) == IF Len(r.records) > 0 THEN r.records[1] ELSE NoInfo
\* the inserted row, response.data[0]
NamecardRow(h, uid, card) ==
    [none |-> FALSE, event |-> h, user_id |-> uid, card |-> card]
SavedOk_Always(sv) == TRUE
\* if saved:
SavedOk(sv) == ~sv.none

AInit ==
    /\ available \in BOOLEAN
    /\ monthly_usage = 0
    /\ namecards = {}
    /\ hpc = [h \in Handlers |-> "start"]
    /\ user = [h \in Handlers |-> NoRow]
    /\ ocr_result = [h \in Handlers |-> ReturnNone]
    /\ card_info = [h \in Handlers |-> NoInfo]
    /\ saved = [h \in Handlers |-> NoRow]
    /\ current_usage = [h \in Handlers |-> 0]
    /\ incremented = [h \in Handlers |-> NotCalled]
    /\ calls = [h \in Handlers |-> <<>>]

\* app.py lines 164-169
Unavailable(h) ==
    /\ hpc[h] = "start"
    /\ ~available
    /\ hpc' = [hpc EXCEPT ![h] = "done"]
    /\ UNCHANGED <<available, monthly_usage, namecards, user, ocr_result,
                   card_info, saved, current_usage, incremented, calls>>

\* app.py lines 171-172; get_or_create_user returns the row, or None when
\* the query raised (database.py lines 42-44)
GetOrCreateUser(h) ==
    /\ hpc[h] = "start"
    /\ available
    /\ \E u \in {UserRow, NoRow} : user' = [user EXCEPT ![h] = u]
    /\ hpc' = [hpc EXCEPT ![h] = "ocr"]
    /\ UNCHANGED <<available, monthly_usage, namecards, ocr_result,
                   card_info, saved, current_usage, incremented, calls>>

\* app.py lines 171-185: a call of the messaging API or the temporary file
\* raises; lines 232-243
HandlerRaises(h) ==
    /\ hpc[h] \in {"start", "ocr"}
    /\ available
    /\ hpc' = [hpc EXCEPT ![h] = "done"]
    /\ UNCHANGED <<available, monthly_usage, namecards, user, ocr_result,
                   card_info, saved, current_usage, incremented, calls>>

\* app.py lines 188-200
ProcessImage(h) ==
    /\ hpc[h] = "ocr"
    /\ \E r \in PipelineResults :
          /\ ocr_result' = [ocr_result EXCEPT ![h] = r]
          /\ IF Falsy(r)
             THEN /\ hpc' = [hpc EXCEPT ![h] = "done"]
                  /\ UNCHANGED card_info
             ELSE /\ card_info' = [card_info EXCEPT ![h] = CardInfoOf(r)]
                  /\ hpc' = [hpc EXCEPT ![h] =
                               IF CardInfoOf(r) = NoInfo THEN "done" ELSE "save"]
    /\ UNCHANGED <<available, monthly_usage, namecards, user, saved,
                   current_usage, incremented, calls>>

\* app.py line 203 with user = None: user['id'] raises before the call
SaveWithoutUser(h) ==
    /\ hpc[h] = "save"
    /\ user[h].none
    /\ hpc' = [hpc EXCEPT ![h] = "done"]
    /\ UNCHANGED <<available, monthly_usage, namecards, user, ocr_result,
                   card_info, saved, current_usage, incremented, calls>>

\* app.py lines 203-205, database.py lines 46-63: the insert succeeds
SaveNamecard(h) ==
    /\ hpc[h] = "save"
    /\ ~user[h].none
    /\ calls' = [calls EXCEPT ![h] =
                    Append(@, <<"save_namecard", user[h].id, card_info[h]>>)]
    /\ namecards' = namecards \cup {NamecardRow(h, user[h].id, card_info[h])}
    /\ saved' = [saved EXCEPT ![h] = NamecardRow(h, user[h].id, card_info[h])]
    /\ hpc' = [hpc EXCEPT ![h] =
                 IF SavedOk(saved'[h]) THEN "read" ELSE "done"]
    /\ UNCHANGED <<available, monthly_usage, user, ocr_result, card_info,
                   current_usage, incremented>>

\* app.py lines 203-205, database.py lines 61-67: the insert raises, or
\* answers without data; save_namecard returns None
SaveNamecardFails(h) ==
    /\ hpc[h] = "save"
    /\ ~user[h].none
    /\ calls' = [calls EXCEPT ![h] =
                    Append(@, <<"save_namecard", user[h].id, card_info[h]>>)]
    /\ saved' = [saved EXCEPT ![h] = NoRow]
    /\ hpc' = [hpc EXCEPT ![h] =
                 IF SavedOk(saved'[h]) THEN "read" ELSE "done"]
    /\ UNCHANGED <<available, monthly_usage, namecards, user, ocr_result,
                   card_info, current_usage, incremented>>

\* app.py line 206, database.py lines 135-141: the select
ReadUsage(h) ==
    /\ hpc[h] = "read"
    /\ calls' = [calls EXCEPT ![h] =
                    Append(@, <<"increment_monthly_usage", user[h].id>>)]
    /\ current_usage' = [current_usage EXCEPT ![h] = monthly_usage]
    /\ hpc' = [hpc EXCEPT ![h] = "write"]
    /\ UNCHANGED <<available, monthly_usage, namecards, user, ocr_result,
                   card_info, saved, incremented>>

\* database.py lines 135-138 raise; lines 151-153
ReadUsageRaises(h) ==
    /\ hpc[h] = "read"
    /\ calls' = [calls EXCEPT ![h] =
                    Append(@, <<"increment_monthly_usage", user[h].id>>)]
    /\ incremented' = [incremented EXCEPT ![h] = "False"]
    /\ hpc' = [hpc EXCEPT ![h] = "done"]
    /\ UNCHANGED <<available, monthly_usage, namecards, user, ocr_result,
                   card_info, saved, current_usage>>

\* database.py lines 144-149: the update, then return True
WriteUsage(h) ==
    /\ hpc[h] = "write"
    /\ monthly_usage' = current_usage[h] + 1
    /\ incremented' = [incremented EXCEPT ![h] = "True"]
    /\ hpc' = [hpc EXCEPT ![h] = "done"]
    /\ UNCHANGED <<available, namecards, user, ocr_result, card_info, saved,
                   current_usage, calls>>

\* database.py lines 144-147 raise; lines 151-153
WriteUsageRaises(h) ==
    /\ hpc[h] = "write"
    /\ incremented' = [incremented EXCEPT ![h] = "False"]
    /\ hpc' = [hpc EXCEPT ![h] = "done"]
    /\ UNCHANGED <<available, monthly_usage, namecards, user, ocr_result,
                   card_info, saved, current_usage, calls>>

ANext ==
    \/ \E h \in Handlers : Unavailable(h) /\ UNCHANGED <<pvars, xvars, nvars>>
    \/ \E h \in Handlers : GetOrCreateUser(h) /\ UNCHANGED <<pvars, xvars, nvars>>
    \/ \E h \in Handlers : HandlerRaises(h) /\ UNCHANGED <<pvars, xvars, nvars>>
    \/ \E h \in Handlers : ProcessImage(h) /\ UNCHANGED <<pvars, xvars, nvars>>
    \/ \E h \in Handlers : SaveWithoutUser(h) /\ UNCHANGED <<pvars, xvars, nvars>>
    \/ \E h \in Handlers : SaveNamecard(h) /\ UNCHANGED <<pvars, xvars, nvars>>
    \/ \E h \in Handlers : SaveNamecardFails(h) /\ UNCHANGED <<pvars, xvars, nvars>>
    \/ \E h \in Handlers : ReadUsage(h) /\ UNCHANGED <<pvars, xvars, nvars>>
    \/ \E h \in Handlers : ReadUsageRaises(h) /\ UNCHANGED <<pvars, xvars, nvars>>
    \/ \E h \in Handlers : WriteUsage(h) /\ UNCHANGED <<pvars, xvars, nvars>>
    \/ \E h \in Handlers : WriteUsageRaises(h) /\ UNCHANGED <<pvars, xvars, nvars>>

InitApp == AInit /\ PIdle /\ XIdle /\ NIdle
SpecApp == InitApp /\ [][ANext]_vars

(***************************************************************************)
(* Properties of the clustering engine and of process_image                *)
(***************************************************************************)
\* group_text_by_clustering has just returned
Grouped == pc = "groups"

N == Len(text_blocks)
InputBlocks == {text_blocks[k] : k \in 1..N}
BlockSet(g) == {g[k] : k \in 1..Len(g)}
ReturnedSets == {BlockSet(namecard_groups[k]) : k \in 1..Len(namecard_groups)}

\* the candidate clusters: the blocks of one label
Candidate(l) == {text_blocks[k] : k \in {j \in 1..N : labels[j] = l}}
Candidates == {Candidate(l) : l \in {labels[k] : k \in DOMAIN labels}}

\* bounding box of a set of blocks, and the range [0.5, 4.0] of its
\* width/height ratio (a box of height 0 has no ratio in the range)
BoxWidth(S) == MaxOf({b.max_x : b \in S}) - MinOf({b.min_x : b \in S})
BoxHeight(S) == MaxOf({b.max_y : b \in S}) - MinOf({b.min_y : b \in S})
RatioInRange(S) ==
    LET w == BoxWidth(S)
        h == BoxHeight(S)
    IN  h > 0 /\ 10 * w >= 5 * h /\ 10 * w <= 40 * h

\* 15% (3/20) of the smaller overall extent is the radius; m is that extent
SmallerExtent ==
    LET w == BoxWidth(InputBlocks)
        h == BoxHeight(InputBlocks)
    IN  IF w < h THEN w ELSE h
WithinRadius(a, b, m) ==
    LET dx == a.x - b.x
        dy == a.y - b.y
    IN  20 * 20 * (dx * dx + dy * dy) <= 3 * 3 * m * m

\* the blocks of All linked to S by a chain of within-radius steps
RECURSIVE Linked(_, _, _)
Linked(S, All, m) ==
    LET T == S \cup {b \in All : \E a \in S : WithinRadius(a, b, m)}
    IN  IF T = S THEN S ELSE Linked(T, All, m)

\* sort key of a cluster: vertical position of its top-most block, then
\* horizontal position of its left-most block
TopLeft(S) == << MinOf({b.y : b \in S}), MinOf({b.x : b \in S}) >>
Before(a, b) == a[1] < b[1] \/ (a[1] = b[1] /\ a[2] <= b[2])

\* C1: the number of records process_image returns never exceeds 9 and
\* never exceeds the number of clusters group_text_by_clustering returned.
C1_RecordCountBounded ==
    /\ pc \in {"return", "done"} =>
          Len(results) <= 9 /\ Len(results) <= Len(namecard_groups)
    /\ pc = "done" =>
          Len(result.records) <= 9 /\ Len(result.records) <= Len(namecard_groups)

\* nine records out of more than nine blocks: the cap decided the count
C1_Witness ==
    pc = "done" /\ Len(result.records) = 9 /\ N > 9

\* C2: every returned cluster consists of input blocks only, no block is in
\* two returned clusters or twice in one, and a block of a rejected candidate
\* is in no returned cluster.
C2_ClustersDisjoint ==
    Grouped =>
      LET returned == ReturnedSets
      IN  /\ \A k \in 1..Len(namecard_groups) :
                /\ BlockSet(namecard_groups[k]) \subseteq InputBlocks
                /\ Cardinality(BlockSet(namecard_groups[k]))
                      = Len(namecard_groups[k])
          /\ \A j, k \in 1..Len(namecard_groups) :
                j # k => BlockSet(namecard_groups[j])
                            \cap BlockSet(namecard_groups[k]) = {}
          /\ N >= 2 =>
                \A c \in Candidates :
                   ~RatioInRange(c) => \A g \in returned : g \cap c = {}

\* two clusters returned, one of them of several blocks, and a candidate
\* rejected
C2_Witness ==
    /\ Grouped
    /\ Len(namecard_groups) >= 2
    /\ \E k \in 1..Len(namecard_groups) : Len(namecard_groups[k]) >= 2
    /\ \E c \in Candidates : ~RatioInRange(c)

\* C3: process_image returns a (possibly empty) list whenever the OCR call
\* succeeded, and None only for a backend failure.
C3_NullOnlyOnBackendFailure ==
    pc = "done" => (result.none <=> response.error)

\* the records of the returned clusters, from cluster k on
RECURSIVE InfosFrom(_)
InfosFrom(k) ==
    IF k > Len(namecard_groups) THEN <<>>
    ELSE <<extract_info_from_text(GroupText(namecard_groups[k]))>>
         \o InfosFrom(k + 1)
\* the clusters that yield a name, a company or an email
QualifyingIn(infos) ==
    {k \in 1..Len(infos) :
        /\ infos[k] # NoInfo
        /\ ~(/\ infos[k].name = None
             /\ infos[k].company = None
             /\ infos[k].email = None)}
\* the j-th of the clusters Q, in the order of the clusters
Nth(Q, j) == CHOOSE k \in Q : Cardinality({q \in Q : q < k}) = j - 1

\* C4: exactly one record for each returned cluster that yields a name, a
\* company or an email, none for any other cluster, in the order of the
\* clusters; every record has one of the three.
C4_OneRecordPerQualifyingCluster ==
    pc = "done" =>
      \E infos \in {InfosFrom(1)} : \E Q \in {QualifyingIn(infos)} :
         /\ Len(result.records) = Cardinality(Q)
         /\ \A j \in 1..Len(result.records) :
               /\ result.records[j] = infos[Nth(Q, j)]
               /\ \/ result.records[j].name # None
                  \/ result.records[j].company # None
                  \/ result.records[j].email # None

\* some clusters gave a record and some did not
C4_Witness ==
    /\ pc = "done"
    /\ Len(namecard_groups) >= 3
    /\ Len(result.records) >= 2
    /\ Len(result.records) < Len(namecard_groups)

TopToBottom(g) == \A k \in 1..(Len(g) - 1) : g[k].y <= g[k + 1].y

\* txt is the text of cluster g: the texts of its blocks, each once and no
\* other, joined top to bottom
OwnText(txt, g, cands) ==
    /\ TopToBottom(g)
    /\ N >= 2 => BlockSet(g) \in cands
    /\ Cardinality(BlockSet(g)) = Len(g)
    /\ txt = JoinLines([a \in 1..Len(g) |-> g[a].text])

\* C5: the full_text of every record is the texts of the blocks of one
\* returned cluster, each once and no other, joined top to bottom; records
\* of different clusters follow the order of the clusters.
C5_FullTextOfOwnCluster ==
    pc = "done" /\ result.records # <<>> =>
       \E cands \in {Candidates} :
          /\ \A j \in 1..Len(result.records) :
                \E k \in j..Len(namecard_groups) :
                   OwnText(result.records[j].full_text, namecard_groups[k], cands)
          /\ \A i, j \in 1..Len(result.records) :
                i # j => result.records[i].full_text # result.records[j].full_text

\* a record of a cluster of three blocks that the backend did not report
\* top to bottom, next to another cluster
C5_Witness ==
    /\ pc = "done"
    /\ Len(namecard_groups) >= 2
    /\ \E j \in 1..Len(result.records) :
          \E k \in 1..Len(namecard_groups) :
             /\ Len(namecard_groups[k]) = 3
             /\ result.records[j].full_text = GroupText(namecard_groups[k])
             /\ \E a, b \in 1..N :
                   /\ a < b
                   /\ text_blocks[a] \in BlockSet(namecard_groups[k])
                   /\ text_blocks[b] \in BlockSet(namecard_groups[k])
                   /\ text_blocks[a].y > text_blocks[b].y

\* C6 as stated: every returned cluster has a width/height ratio in
\* [0.5, 4.0], for any input.
C6_EveryReturnedClusterInRange ==
    Grouped => \A g \in ReturnedSets : RatioInRange(g)

\* C6 amended: for two or more blocks every returned cluster is a
\* candidate with a ratio in [0.5, 4.0], and a candidate outside the range
\* (height 0 included) loses all its blocks and is merged into no cluster; a
\* single block is returned as one cluster without the check.
C6_AspectFilter ==
    Grouped =>
      LET returned == ReturnedSets
          cands    == Candidates
      IN  /\ N >= 2 =>
                /\ \A g \in returned : g \in cands /\ RatioInRange(g)
                /\ \A c \in cands :
                      ~RatioInRange(c) => \A g \in returned : g \cap c = {}
          /\ N = 1 => namecard_groups = <<text_blocks>>

\* a candidate of several blocks rejected for its ratio, one rejected for
\* its height of 0, and a candidate returned
C6_Witness ==
    /\ Grouped
    /\ N >= 2
    /\ \E c \in Candidates :
          Cardinality(c) >= 2 /\ BoxHeight(c) > 0 /\ ~RatioInRange(c)
    /\ \E c \in Candidates : BoxHeight(c) = 0
    /\ namecard_groups # <<>>

Accepted == {c \in Candidates : RatioInRange(c)}

\* C7: the returned clusters are in ascending order of (top-most block's
\* vertical position, left-most block's horizontal position), and of more
\* than 9 accepted clusters the first 9 in that order are returned.
C7_OrderedThenCapped ==
    Grouped /\ N >= 2 =>
      LET returned == ReturnedSets
          accepted == Accepted
      IN  /\ \A k \in 1..(Len(namecard_groups) - 1) :
                Before(TopLeft(BlockSet(namecard_groups[k])),
                       TopLeft(BlockSet(namecard_groups[k + 1])))
          /\ Len(namecard_groups)
                = (IF Cardinality(accepted) > 9 THEN 9 ELSE Cardinality(accepted))
          /\ returned \subseteq accepted
          /\ \A c \in accepted \ returned :
                \A g \in returned : Before(TopLeft(g), TopLeft(c))

\* more than 9 clusters accepted, 9 returned
C7_Witness ==
    /\ Grouped
    /\ N >= 2
    /\ Cardinality(Accepted) > 9
    /\ Len(namecard_groups) = 9

DigitsOf(s) == SelectSeq(s, LAMBDA c : c \in Digit)

\* the phone-shaped matches of the text, of either pattern
PhoneShaped ==
    LET t  == StripSpaces(text)
        m1 == FindAll("phone_dashed", t, 1)
        m2 == FindAll("phone_plain", t, 1)
    IN  {m1[k] : k \in 1..Len(m1)} \cup {m2[k] : k \in 1..Len(m2)}

\* C9: extract_phone never returns a value whose digits start with 070, 080
\* or 090, whatever precedes the number, and does not return None when the
\* text holds a phone-shaped number without such a prefix.
C9_PhoneSkipsMobileNumbers ==
    xpc \in {"mobile", "done"} =>
      /\ phone # None => ~IsMobilePrefixed(DigitsOf(phone))
      /\ (\E m \in PhoneShaped : ~IsMobilePrefixed(DigitsOf(m))) => phone # None

\* fax, in any letter case, somewhere in s
MentionsFax(s) ==
    \E p \in 1..Len(s) : MatchLit(s, p, <<"f","a","x">>, TRUE)

\* C10: extract_mobile never returns a candidate labelled FAX in any letter
\* case; what it returns is a number starting with 070, 080 or 090 with no
\* label left in it.
C10_MobileNeverFax ==
    xpc = "done" /\ mobile # None =>
      /\ ~MentionsFax(mobile)
      /\ IsMobilePrefixed(DigitsOf(mobile))
      /\ \A k \in 1..Len(mobile) : mobile[k] \notin Letter \cup CJK

\* the scanned lines of the text: the first five, stripped
ScannedLines ==
    LET ls == FirstN(SplitLines(text, 1, <<>>), 5)
    IN  [k \in 1..Len(ls) |-> Strip(ls[k])]
\* the first of the lines ls that is in K
FirstIn(ls, K) == ls[CHOOSE k \in K : \A j \in K : k <= j]

\* C11: extract_name returns a line matching the Latin rule only if no
\* scanned line matches the CJK rule: with a CJK-name line among the scanned
\* lines the first such line is returned, whichever line comes first;
\* without one the first Latin-name line; without either None.
C11_NameRulesInPriorityOrder ==
    xpc \in {"email", "done"} =>
      \E ls \in {ScannedLines} :
        LET cjk   == {k \in 1..Len(ls) : IsCjkName(ls[k])}
            latin == {k \in 1..Len(ls) : IsLatinName(ls[k])}
        IN  name = IF cjk # {} THEN FirstIn(ls, cjk)
                   ELSE IF latin # {} THEN FirstIn(ls, latin)
                   ELSE None

\* full-width '@' and '.' replaced by their ASCII equivalents
NormalizeFullWidth(t) ==
    [k \in 1..Len(t) |->
        IF t[k] = FullWidthAt THEN "@"
        ELSE IF t[k] \in FullWidthDots THEN "."
        ELSE t[k]]

\* C12: extract_email returns the first local@domain.tld match of the
\* text, and with no match in the plain text the first match of the text
\* with full-width '@' and '.' replaced by their ASCII equivalents.
C12_EmailRetriesNormalized ==
    xpc = "done" =>
      \E plain \in {FirstEmail(text, 1)} :
        email = IF plain # None THEN plain
                ELSE FirstEmail(NormalizeFullWidth(text), 1)

(***************************************************************************)
(* Properties of handle_image_message and the usage counter                *)
(***************************************************************************)
\* the handlers whose increment_monthly_usage completed its update
Completed == {h \in Handlers : incremented[h] = "True"}

\* C13: under any interleaving of the handlers of one sender, after k
\* completed calls of increment_monthly_usage the stored monthly_usage is
\* its initial value (0) plus k.
C13_NoLostUpdate ==
    monthly_usage = 0 + Cardinality(Completed)

\* the calls a handler may have made so far, given the record it saves
CallsAllowed(card) ==
    { <<>>,
      << <<"save_namecard", UserId, card>> >>,
      << <<"save_namecard", UserId, card>>,
         <<"increment_monthly_usage", UserId>> >> }

\* C14: a handler calls save_namecard at most once, with the first record
\* of the pipeline's result, and increment_monthly_usage at most once and
\* only after that save returned a row; with a null or empty result no
\* call is made, and after a failed save no increment.
C14_SaveOnceThenIncrement ==
    \A h \in Handlers :
       /\ Falsy(ocr_result[h]) => calls[h] = <<>>
       /\ ~Falsy(ocr_result[h]) =>
             calls[h] \in CallsAllowed(ocr_result[h].records[1])
       /\ Len(calls[h]) = 2 =>
             /\ ~saved[h].none
             /\ saved[h] \in namecards
             /\ saved[h].card = ocr_result[h].records[1]
       /\ saved[h].none => Len(calls[h]) <= 1
       /\ Cardinality({r \in namecards : r.event = h}) <= 1

\* one handler saved the first of two records and incremented the counter,
\* another one's save failed and it made no further call
C14_Witness ==
    \E g, h \in Handlers :
       /\ hpc[g] = "done" /\ hpc[h] = "done"
       /\ Len(ocr_result[g].records) = 2
       /\ Len(calls[g]) = 2
       /\ incremented[g] = "True"
       /\ Len(calls[h]) = 1
       /\ saved[h].none

====
